---- MODULE Spec2Model ----
(***************************************************************************)
(* PDF triage service: the triage scorer (keyword_bank.py), the triage     *)
(* endpoint and the extraction orchestrator (main.py) and the two backend  *)
(* extraction functions (extraction.py), as state machines.                *)
(*                                                                         *)
(* Strings the code inspects character by character (page texts, keyword   *)
(* phrases, query parameters) are sequences of one-character strings.      *)
(* Backend reply contents are sequences of tokens: a code fence, a line    *)
(* break, a blank, or one token standing for a whole JSON or prose text.   *)
(***************************************************************************)
EXTENDS Integers, Sequences, FiniteSets, TLC

VARIABLES
    \* ---- POST /api/extract-specs and the direct extraction endpoints ----
    pc,                 \* position of the extraction request handler
    pages_data,         \* triage_data["pages"]: the entries of the triage result
    doc_len,            \* len(doc) of the uploaded document
    text_page_nums,     \* main.py:363
    drawing_page_nums,  \* main.py:364
    text_payloads,      \* main.py:371, page numbers in payload order
    vision_payloads,    \* main.py:372, page numbers in payload order
    text_task,          \* the coroutine extract_from_text(...)
    vision_task,        \* the coroutine extract_from_drawing(...)
    http_log,           \* every client.post issued so far, in order
    response,           \* the handler's return value, <<>> until it returns
    triage_json_ok,     \* whether triage_result parses as JSON
    \* ---- POST /api/triage, one entry per request ----
    tr_pc,              \* position of each triage request handler
    tr_args,            \* filename and query parameters of each request
    kw_heap,            \* the keyword-bank dicts of the process, by object
    local_kw_bank,      \* main.py:57, the object the name is bound to
    disabled_cats_set,  \* main.py:53
    temp_files,         \* the requests whose temporary file exists
    tr_reads,           \* chunks read from the upload so far
    running,            \* the request the event loop is running, 0 for none
    total_pages,        \* main.py:87
    tr_doc,             \* what each page loaded so far gave
    pages_result,       \* main.py:67
    text_pages_count,   \* main.py:68
    drawing_pages_count, \* main.py:69
    triage_response,    \* the handler's return value, <<>> until it returns
    \* ---- the pure functions called on their own ----
    fn_call,            \* the function and its arguments
    fn_result           \* <<>> until it returns, then <<value>>

ex_vars == <<pc, pages_data, doc_len, text_page_nums, drawing_page_nums,
             text_payloads, vision_payloads, text_task, vision_task,
             http_log, response, triage_json_ok>>

tr_vars == <<tr_pc, tr_args, kw_heap, local_kw_bank, disabled_cats_set, temp_files,
             tr_reads, running, total_pages, tr_doc, pages_result, text_pages_count,
             drawing_pages_count, triage_response>>

fn_vars == <<fn_call, fn_result>>

vars == <<ex_vars, tr_vars, fn_vars>>

-----------------------------------------------------------------------------
\* Bounds of the model.

\* Largest number of pages of a triaged document whose triage result is
\* handed to the orchestrator unchanged.
MaxPages == 3

\* Largest number of entries, and largest page number, in a triage result
\* the client has edited (entries dropped, repeated, reordered, relabelled).
MaxEntries == 2
MaxPageNum == 2

\* Largest number of images or pages in the payload of a direct call of
\* /api/extract-specs/vision or /api/extract-specs/text.
MaxPayload == 2

\* processing_time_ms ranges over 0..MaxElapsedMs.
MaxElapsedMs == 1

\* Triage requests in one run of the service, pages of a document uploaded
\* while other requests run, pages of a document uploaded alone, and chunks an
\* upload is read in.
MaxRequests == 2
MaxSharedDocPages == 1
MaxDocPages == 3
MaxChunks == 1

\* Page texts are from MinTextLen - MaxSlack to MinTextLen + MaxSlack
\* characters long, trimmed.
MaxSlack == 1

\* Scores handed to get_recommendation range over -MaxScore..MaxScore
\* ten-thousandths.
MaxScore == 5000

\* The scoring arithmetic on its own: hit counts up to MaxHits, normalized
\* lengths up to MaxTextLen.
MaxHits == 3
MaxTextLen == 60

-----------------------------------------------------------------------------
\* Small helpers on sequences and Python dicts (functions on strings).

Range(s) == {s[i] : i \in 1..Len(s)}

\* d[k] = v
DictSet(d, k, v) == (k :> v) @@ d

\* Python None where a page number is expected (never a page number).
PyNone == 0 - 1

\* All orderings of a finite set: the iteration order of a Python set.
Orderings(S) ==
    {s \in [1..Cardinality(S) -> S] : \A i, j \in 1..Cardinality(S) : i # j => s[i] # s[j]}

-----------------------------------------------------------------------------
\* Backend replies.  A reply content is a sequence of tokens; a token is a
\* code fence, white space, or one whole JSON (or prose) text.

FenceTokens == {"<fence>", "<fence>json"}
WsTokens == {" ", "\n", "\t"}

\* Screen objects as a backend writes them (confidence in hundredths).
ScreenA == [screen_name |-> "Main Videoboard", confidence |-> 90, raw_notes |-> <<"40x22">>]
ScreenB == [screen_name |-> "Ribbon Board", confidence |-> 40, raw_notes |-> <<"fascia">>,
            source_page |-> 2]
ScreenC == [screen_name |-> "Marquee", confidence |-> 70, raw_notes |-> <<"entry">>,
            source_page |-> PyNone]

IsDict(d) == [isdict |-> TRUE, d |-> d]
NotDict == [isdict |-> FALSE, d |-> ScreenA]

\* The tokens json.loads accepts, with the value each parses to.
JsonTokens == {"[A]", "[A,B]", "[B,C]", "[]", "{}", "{A}", "5", "null", "\"\"", "[5]", "[A,5]"}

\* json.loads on one JSON text: the Python value, by its type.
JsonValue(tok) ==
    CASE tok = "[A]"   -> [t |-> "list", items |-> <<IsDict(ScreenA)>>]
      [] tok = "[A,B]" -> [t |-> "list", items |-> <<IsDict(ScreenA), IsDict(ScreenB)>>]
      [] tok = "[B,C]" -> [t |-> "list", items |-> <<IsDict(ScreenB), IsDict(ScreenC)>>]
      [] tok = "[]"    -> [t |-> "list", items |-> <<>>]
      [] tok = "[5]"   -> [t |-> "list", items |-> <<NotDict>>]
      [] tok = "[A,5]" -> [t |-> "list", items |-> <<IsDict(ScreenA), NotDict>>]
      [] tok = "{}"    -> [t |-> "dict", items |-> <<>>]
      [] tok = "{A}"   -> [t |-> "dict", items |-> <<NotDict, NotDict, NotDict>>]
      [] tok = "\"\""  -> [t |-> "str", items |-> <<>>]
      [] OTHER         -> [t |-> "scalar", items |-> <<>>]

\* str.strip() on a content: leading and trailing white space dropped.
Strip(c) ==
    LET solid == {i \in 1..Len(c) : c[i] \notin WsTokens}
    IN IF solid = {} THEN <<>>
       ELSE SubSeq(c, CHOOSE i \in solid : \A j \in solid : i <= j,
                      CHOOSE i \in solid : \A j \in solid : j <= i)

\* cleaned.split("\n", 1)[1].rsplit(fence, 1)[0]; ok = FALSE is the IndexError
\* of a fenced content without a line break.
StripFence(cleaned) ==
    IF cleaned # <<>> /\ Head(cleaned) \in FenceTokens
    THEN LET nl == {i \in 1..Len(cleaned) : cleaned[i] = "\n"}
         IN IF nl = {}
            THEN [ok |-> FALSE, v |-> <<>>]
            ELSE LET first == CHOOSE i \in nl : \A j \in nl : i <= j
                     rest  == SubSeq(cleaned, first + 1, Len(cleaned))
                     fs    == {i \in 1..Len(rest) : rest[i] \in FenceTokens}
                 IN IF fs = {}
                    THEN [ok |-> TRUE, v |-> rest]
                    ELSE LET last == CHOOSE i \in fs : \A j \in fs : j <= i
                         IN [ok |-> TRUE, v |-> SubSeq(rest, 1, last - 1)]
    ELSE [ok |-> TRUE, v |-> cleaned]

\* json.loads(cleaned); ok = FALSE is json.JSONDecodeError.
json_loads(cleaned) ==
    LET body == Strip(cleaned)
    IN IF Len(body) = 1 /\ body[1] \in JsonTokens
       THEN [ok |-> TRUE, val |-> JsonValue(body[1])]
       ELSE [ok |-> FALSE, val |-> JsonValue("null")]

\* The loop over the parsed screens followed by item assignment: FALSE is the
\* TypeError of a value that is not iterable or an element that is no dict.
Taggable(val) ==
    /\ val.t # "scalar"
    /\ \A i \in 1..Len(val.items) : val.items[i].isdict

\* The screens a list of dict items holds.
RECURSIVE ScreensOfItems(_)
ScreensOfItems(items) ==
    IF items = <<>> THEN <<>> ELSE <<Head(items).d>> \o ScreensOfItems(Tail(items))

\* The screens a parsed value holds, when it is Taggable.
ScreensOf(val) == ScreensOfItems(val.items)

\* An HTTP exchange as the client sees it.
TransportError(m) ==
    [kind |-> "exception", msg |-> m, status |-> 0, body |-> "none",
     content |-> <<>>, reasoning |-> <<>>]
Http(status, body, content, reasoning) ==
    [kind |-> "http", msg |-> "", status |-> status, body |-> body,
     content |-> content, reasoning |-> reasoning]

\* response.raise_for_status() passes
IsSuccess(status) == status >= 200 /\ status <= 299

-----------------------------------------------------------------------------
\* extraction.py: what one backend call contributes.

ApiErrorRecord(page, type, msg) ==
    [source_page |-> page, source_type |-> type, screen_name |-> "API_ERROR",
     raw_notes |-> <<msg>>, confidence |-> 0]

ParseErrorRecord(page, type, raw) ==
    [source_page |-> page, source_type |-> type, screen_name |-> "PARSE_ERROR",
     raw_notes |-> raw, confidence |-> 0]

\* The tagging of the text branch applied to a drawing: a page number the
\* backend wrote is kept.
TagDrawingKeepPage(screen, page) ==
    LET typed == DictSet(screen, "source_type", "drawing")
    IN IF "source_page" \notin DOMAIN typed \/ typed["source_page"] = PyNone
       THEN DictSet(typed, "source_page", page)
       ELSE typed

\* screen["source_page"] = img["page_num"]; screen["source_type"] = "drawing"
TagDrawing(screen, page) ==
    DictSet(DictSet(screen, "source_page", page), "source_type", "drawing")

\* screen["source_type"] = "text"; source_page defaulted when absent or None
TagText(screen, default_page) ==
    LET typed == DictSet(screen, "source_type", "text")
    IN IF "source_page" \notin DOMAIN typed \/ typed["source_page"] = PyNone
       THEN DictSet(typed, "source_page", default_page)
       ELSE typed

\* extraction.py:88-93 and 175-181: json.loads and the loop over its value.
\* err names the exception raised on the way ("" for none).
LoadScreens(cleaned) ==
    IF ~cleaned.ok THEN [err |-> "IndexError", screens |-> <<>>]
    ELSE CHOOSE r \in
           {IF ~parsed.ok THEN [err |-> "JSONDecodeError", screens |-> <<>>]
            ELSE IF ~Taggable(parsed.val) THEN [err |-> "TypeError", screens |-> <<>>]
            ELSE [err |-> "", screens |-> ScreensOf(parsed.val)]
            : parsed \in {json_loads(cleaned.v)}}
         : TRUE

\* extraction.py:84-93 and 171-181: the content cleaned, parsed and walked.
ParseScreens(full_response) ==
    CHOOSE r \in {LoadScreens(cleaned) : cleaned \in {StripFence(Strip(full_response))}} : TRUE

\* extraction.py:90-92
RECURSIVE TagAllDrawing(_, _)
TagAllDrawing(screens, page) ==
    IF screens = <<>> THEN <<>>
    ELSE <<TagDrawing(Head(screens), page)>> \o TagAllDrawing(Tail(screens), page)

\* extraction.py:177-180
RECURSIVE TagAllText(_, _)
TagAllText(screens, default_page) ==
    IF screens = <<>> THEN <<>>
    ELSE <<TagText(Head(screens), default_page)>> \o TagAllText(Tail(screens), default_page)

\* extraction.py:88-102: the records of a reply whose text is full_response.
DrawingRecordsOf(page, full_response) ==
    CHOOSE recs \in
       {IF got.err = "JSONDecodeError"
          THEN <<ParseErrorRecord(page, "drawing", full_response)>>
        ELSE IF got.err # "" THEN <<ApiErrorRecord(page, "drawing", got.err)>>
        ELSE TagAllDrawing(got.screens, page) : got \in {ParseScreens(full_response)}}
    : TRUE

\* One pass of the loop of extract_from_drawing: the records the image of page
\* page adds to results when its POST ends as resp.
DrawingRecords(page, resp) ==
    IF resp.kind = "exception" THEN <<ApiErrorRecord(page, "drawing", resp.msg)>>
    ELSE IF ~IsSuccess(resp.status) THEN <<ApiErrorRecord(page, "drawing", "HTTPStatusError")>>
    ELSE IF resp.body = "not_json" THEN <<ApiErrorRecord(page, "drawing", "JSONDecodeError")>>
    ELSE IF resp.body = "no_key" THEN <<ApiErrorRecord(page, "drawing", "KeyError")>>
    ELSE
      LET text      == resp.content
          reasoning == resp.reasoning
      IN CHOOSE recs \in
            {DrawingRecordsOf(page, full_response)
             : full_response \in {IF Strip(text) # <<>> THEN text ELSE reasoning}}
         : TRUE

\* extraction.py:175-189: the records of a reply whose text is content.
TextRecordsOf(first_page, content) ==
    CHOOSE recs \in
       {IF got.err = "JSONDecodeError"
          THEN <<ParseErrorRecord(first_page, "text", content)>>
        ELSE IF got.err # "" THEN <<ApiErrorRecord(first_page, "text", got.err)>>
        ELSE TagAllText(got.screens, first_page) : got \in {ParseScreens(content)}}
    : TRUE

\* extract_from_text after its POST ends as resp: the records it returns.
TextRecords(page_nums, resp) ==
    LET first_page == IF page_nums # <<>> THEN page_nums[1] ELSE 0
    IN
    IF resp.kind = "exception" THEN <<ApiErrorRecord(first_page, "text", resp.msg)>>
    ELSE IF ~IsSuccess(resp.status) THEN <<ApiErrorRecord(first_page, "text", "HTTPStatusError")>>
    ELSE IF resp.body = "not_json" THEN <<ApiErrorRecord(first_page, "text", "JSONDecodeError")>>
    ELSE IF resp.body = "null_content" THEN <<ApiErrorRecord(first_page, "text", "AttributeError")>>
    ELSE CHOOSE recs \in
            {TextRecordsOf(first_page, content)
             : content \in {IF resp.body = "no_key" THEN <<>> ELSE resp.content}}
         : TRUE

\* One POST for all the images: the loop ends after its first pass.
NextImageBatched(idx, added) == Len(vision_payloads) + 1

\* The try around the loop instead of inside it: a failed call ends the loop.
NextImageAbortOnError(idx, added) ==
    IF Len(added) = 1 /\ added[1].screen_name = "API_ERROR"
    THEN Len(vision_payloads) + 1
    ELSE idx + 1

\* The image the loop of extract_from_drawing turns to after image idx.
NextImage(idx, added) == idx + 1

-----------------------------------------------------------------------------
\* POST /api/extract-specs (extract_specs_orchestrator).

Classifications == {"text", "drawing"}
Recommendations == {"keep", "maybe", "review", "discard"}

\* The threshold of keep taken as exclusive.
get_recommendation_strict(score, classification) ==
    IF classification = "drawing" THEN "review"
    ELSE IF score > 3000 THEN "keep"
    ELSE IF score > 0 THEN "maybe"
    ELSE "discard"

\* main.py:32-39, scores in ten-thousandths (score_page rounds to 4 decimals).
get_recommendation(score, classification) ==
    IF classification = "drawing" THEN "review"
    ELSE IF score >= 3000 THEN "keep"
    ELSE IF score > 0 THEN "maybe"
    ELSE "discard"

\* The (classification, recommended) pairs triage writes.
TriageLabels ==
    {<<c, get_recommendation(sc, c)>> : sc \in {0, 1500, 3000}, c \in Classifications}

\* A triage result as /api/triage returns it: one entry per page, in page order.
TriageOutputs ==
    UNION {{[i \in 1..n |-> [page_num |-> i, classification |-> lab[i][1],
                             recommended |-> lab[i][2]]] : lab \in [1..n -> TriageLabels]}
           : n \in 0..MaxPages}

\* A triage result after the client edited it.
Entry == [page_num : 1..MaxPageNum, classification : Classifications,
          recommended : Recommendations]

EditedTriageResults == UNION {[1..n -> Entry] : n \in 0..MaxEntries}

\* len(doc) of the upload; CorruptDoc is a file fitz.open rejects.
CorruptDoc == PyNone

\* Eligibility that forgets to exclude discard.
EligibleAny(p) == p.recommended \in Recommendations

\* p.get("recommended") in ("keep", "maybe", "review")
Eligible(p) == p.recommended \in {"keep", "maybe", "review"}

keep_pages_of(data) == SelectSeq(data, Eligible)

\* The text cohort without the test of the classification.
text_page_nums_unfiltered(keep) == {keep[i].page_num : i \in 1..Len(keep)}

text_page_nums_of(keep) ==
    {keep[i].page_num : i \in {j \in 1..Len(keep) : keep[j].classification = "text"}}

drawing_page_nums_of(keep) ==
    {keep[i].page_num : i \in {j \in 1..Len(keep) : keep[j].classification = "drawing"}}

\* 0 <= idx < len(doc) for idx = page_num - 1
InDoc(page_num, n) == 0 <= page_num - 1 /\ page_num - 1 < n

\* A coroutine: st is none (never created), pending (runnable, before its next
\* POST), in_flight (awaiting the reply of a POST) or done (returned).
\* replies holds the replies received, added what each reply contributed.
NoTextTask == [st |-> "none", result |-> <<>>, replies |-> <<>>]
NoVisionTask == [st |-> "none", idx |-> 1, results |-> <<>>, replies |-> <<>>, added |-> <<>>]
NewTextTask == [NoTextTask EXCEPT !.st = "pending"]
NewVisionTask == [NoVisionTask EXCEPT !.st = "pending"]

ZeroSummary ==
    [total_screens_found |-> 0, from_text |-> 0, from_drawings |-> 0,
     text_pages_processed |-> 0, drawing_pages_processed |-> 0,
     processing_time_ms |-> 0]

-----------------------------------------------------------------------------
\* keyword_bank.py: the triage scorer.  A text is a sequence of characters.

LowerLetters == {"a", "b", "c", "d", "e", "f", "g", "h", "i", "j", "k", "l", "m",
                 "n", "o", "p", "q", "r", "s", "t", "u", "v", "w", "x", "y", "z"}
Digits == {"0", "1", "2", "3", "4", "5", "6", "7", "8", "9"}

\* The upper-case letters the texts of the model use, with str.lower() of each.
UpperLetters == {"D", "E", "F", "L", "N", "P", "W"}
ToLower(ch) ==
    CASE ch = "D" -> "d" [] ch = "E" -> "e" [] ch = "F" -> "f" [] ch = "L" -> "l"
      [] ch = "N" -> "n" [] ch = "P" -> "p" [] ch = "W" -> "w" [] OTHER -> ch

\* \w of a str pattern: letters, digits and the underscore.
WordChars == LowerLetters \cup UpperLetters \cup Digits \cup {"_"}

\* text.lower()
Lower(text) == [i \in 1..Len(text) |-> ToLower(text[i])]

\* re.sub(r'[^\w\s]', ' ', text)
ReplacePunctuation(text) ==
    [i \in 1..Len(text) |->
        IF text[i] \in WordChars \/ text[i] \in WsTokens THEN text[i] ELSE " "]

\* re.sub(r'\s+', ' ', text): every maximal run of white space becomes one blank.
RECURSIVE CollapseFrom(_, _)
CollapseFrom(text, i) ==
    IF i > Len(text) THEN <<>>
    ELSE IF text[i] \notin WsTokens THEN <<text[i]>> \o CollapseFrom(text, i + 1)
    ELSE IF i > 1 /\ text[i - 1] \in WsTokens THEN CollapseFrom(text, i + 1)
    ELSE <<" ">> \o CollapseFrom(text, i + 1)

CollapseWhitespace(text) == CollapseFrom(text, 1)

\* keyword_bank.py:114-119
normalize_text(text) == Strip(CollapseWhitespace(ReplacePunctuation(Lower(text))))

\* \b at the gap after position k of s (k = 0 is the start): a word character
\* on exactly one side.
IsWordAt(s, k) == k >= 1 /\ k <= Len(s) /\ s[k] \in WordChars
Boundary(s, k) == IsWordAt(s, k) # IsWordAt(s, k + 1)

\* The pattern \b + re.escape(p) + \b matches s at position i.
MatchAt(p, s, i) ==
    /\ i + Len(p) - 1 <= Len(s)
    /\ SubSeq(s, i, i + Len(p) - 1) = p
    /\ Boundary(s, i - 1)
    /\ Boundary(s, i + Len(p) - 1)

\* len(re.findall(pattern, s)): matches found left to right, never overlapping.
RECURSIVE CountFrom(_, _, _)
CountFrom(p, s, i) ==
    IF i > Len(s) \/ p = <<>> THEN 0
    ELSE IF MatchAt(p, s, i) THEN 1 + CountFrom(p, s, i + Len(p))
    ELSE CountFrom(p, s, i + 1)

\* keyword_bank.py:145-146
MatchCount(kw, normalized) == CountFrom(Lower(kw), normalized, 1)

\* keyword_bank.py:126, the least trimmed length of a page scored as text.
MinTextLen == 50

\* keyword_bank.py:156, the length a snippet is cut to.
SnippetLen == 200

\* The largest t in lo..hi with t * t <= q (lo * lo <= q).
RECURSIVE IsqrtIn(_, _, _)
IsqrtIn(q, lo, hi) ==
    IF lo >= hi THEN lo
    ELSE LET mid == (lo + hi + 1) \div 2
         IN IF mid * mid <= q THEN IsqrtIn(q, mid, hi) ELSE IsqrtIn(q, lo, mid - 1)

\* The score as hits over the length itself, cut to four decimals.
ScoreByLength(hits, text_length) ==
    IF text_length <= 0 THEN 0 ELSE (hits * 10000) \div text_length

\* keyword_bank.py:153 and 160: round(hits / math.sqrt(text_length), 4), in
\* ten-thousandths.  With q + r / text_length = hits^2 * 10^8 / text_length
\* (0 <= r < text_length) and t the integer square root of q, the score is t
\* when the quotient is below (t + 1/2)^2 and t + 1 when it is above; a tie
\* goes to the even neighbour.  The arithmetic stays within 32-bit integers
\* for scores below 4 (hits^2 < 16 * text_length), which covers every text
\* the model scores.
RoundedScore(hits, text_length) ==
    IF text_length <= 0 THEN 0
    ELSE LET h2 == hits * hits * 10000
             q1 == h2 \div text_length
             r1 == h2 % text_length
             q  == q1 * 10000 + (r1 * 10000) \div text_length
             r  == (r1 * 10000) % text_length
             t  == IsqrtIn(q, 0, 40000)
         IN IF q < t * t + t THEN t
            ELSE IF q > t * t + t THEN t + 1
            ELSE IF 4 * r < text_length THEN t
            ELSE IF 4 * r > text_length THEN t + 1
            ELSE IF t % 2 = 0 THEN t ELSE t + 1

\* A keyword bank (a dict, which keeps insertion order) is the sequence of its
\* items, each a category with its list of keywords.  Categories and keywords
\* are texts.
BankItem(category, keywords) == [category |-> category, keywords |-> keywords]

\* keyword_bank.py:4-112, cut down to five of its categories and to the
\* keywords below, in the order of the source.
KEYWORD_BANK ==
    << BankItem(<<"d", "i", "s", "p", "l", "a", "y", "_", "h", "a", "r", "d", "w", "a", "r", "e">>, <<<<"l", "e", "d", " ", "d", "i", "s", "p", "l", "a", "y">>, <<"l", "e", "d", " ", "w", "a", "l", "l">>>>),
       BankItem(<<"s", "p", "e", "c", "s">>, <<<<"n", "i", "t">>>>),
       BankItem(<<"e", "l", "e", "c", "t", "r", "i", "c", "a", "l">>, <<<<"n", "e", "c">>>>),
       BankItem(<<"s", "t", "r", "u", "c", "t", "u", "r", "a", "l">>, <<<<"z", "-", "c", "l", "i", "p">>>>),
       BankItem(<<"m", "a", "n", "u", "f", "a", "c", "t", "u", "r", "e", "r", "s">>, <<<<"l", "g">>, <<"n", "e", "c">>>>) >>

Categories(bank) == {bank[i].category : i \in 1..Len(bank)}

\* bank[category] = keywords: in place for a key the dict has, appended otherwise.
BankSetItem(bank, category, keywords) ==
    IF category \in Categories(bank)
    THEN [i \in 1..Len(bank) |->
            IF bank[i].category = category THEN BankItem(category, keywords) ELSE bank[i]]
    ELSE Append(bank, BankItem(category, keywords))

\* keyword_bank.py:143-150 for one category: its keywords that match, in order.
RECURSIVE MatchedIn(_, _, _)
MatchedIn(keywords, normalized, i) ==
    IF i > Len(keywords) THEN <<>>
    ELSE IF MatchCount(keywords[i], normalized) > 0
         THEN <<keywords[i]>> \o MatchedIn(keywords, normalized, i + 1)
         ELSE MatchedIn(keywords, normalized, i + 1)

RECURSIVE HitsIn(_, _, _)
HitsIn(keywords, normalized, i) ==
    IF i > Len(keywords) THEN 0
    ELSE MatchCount(keywords[i], normalized) + HitsIn(keywords, normalized, i + 1)

\* keyword_bank.py:140-150: the loop over the items of the bank, from item i on.
\* disabled_categories is a set; None behaves as the empty set (line 141).
RECURSIVE MatchLoop(_, _, _, _)
MatchLoop(keyword_bank, disabled_categories, normalized, i) ==
    IF i > Len(keyword_bank)
    THEN [hits |-> 0, matched_keywords |-> <<>>, matched_categories |-> {}]
    ELSE LET rest == MatchLoop(keyword_bank, disabled_categories, normalized, i + 1)
             item == keyword_bank[i]
             kws  == MatchedIn(item.keywords, normalized, 1)
         IN IF disabled_categories # {} /\ item.category \in disabled_categories
            THEN rest
            ELSE [hits |-> HitsIn(item.keywords, normalized, 1) + rest.hits,
                  matched_keywords |-> kws \o rest.matched_keywords,
                  matched_categories |->
                      (IF kws # <<>> THEN {item.category} ELSE {}) \cup rest.matched_categories]

\* text.strip()[:200].replace('\n', ' ')
Snippet(text) ==
    LET cut == SubSeq(Strip(text), 1, IF Len(Strip(text)) < SnippetLen
                                      THEN Len(Strip(text)) ELSE SnippetLen)
    IN [i \in 1..Len(cut) |-> IF cut[i] = "\n" THEN " " ELSE cut[i]]

\* The test of the length on the normalized text.
TooShortNormalized(text) == Len(normalize_text(text)) < MinTextLen

\* The test of the length without the trimming.
TooShortUntrimmed(text) == text = <<>> \/ Len(text) < MinTextLen

\* keyword_bank.py:126: not text or len(text.strip()) < 50
TooShort(text) == text = <<>> \/ Len(Strip(text)) < MinTextLen

\* keyword_bank.py:121-164.  matched_categories is the set the list is built
\* from, score is in ten-thousandths.
score_page(text, keyword_bank, disabled_categories) ==
    IF TooShort(text)
    THEN [classification |-> "drawing", score |-> 0, matched_keywords |-> <<>>,
          matched_categories |-> {}, snippet |-> <<>>]
    ELSE LET normalized == normalize_text(text)
             m == MatchLoop(keyword_bank, disabled_categories, normalized, 1)
         IN [classification |-> "text",
             score |-> RoundedScore(m.hits, Len(normalized)),
             matched_keywords |-> m.matched_keywords,
             matched_categories |-> m.matched_categories,
             snippet |-> Snippet(text)]

-----------------------------------------------------------------------------
\* POST /api/triage (triage_pdf).

Requests == 1..MaxRequests

\* An Optional[str] query parameter: <<>> is None, <<s>> the string s.
Truthy(param) == param # <<>> /\ param[1] # <<>>

\* s.split(",")
RECURSIVE SplitFrom(_, _, _)
SplitFrom(s, i, piece) ==
    IF i > Len(s) THEN <<piece>>
    ELSE IF s[i] = "," THEN <<piece>> \o SplitFrom(s, i + 1, <<>>)
    ELSE SplitFrom(s, i + 1, Append(piece, s[i]))

Split(s) == SplitFrom(s, 1, <<>>)

\* [x.strip() for x in pieces if x.strip()]
RECURSIVE StripNonEmpty(_)
StripNonEmpty(pieces) ==
    IF pieces = <<>> THEN <<>>
    ELSE IF Strip(Head(pieces)) = <<>> THEN StripNonEmpty(Tail(pieces))
    ELSE <<Strip(Head(pieces))>> \o StripNonEmpty(Tail(pieces))

\* main.py:53-55
disabled_cats_set_of(disabled_categories) ==
    IF Truthy(disabled_categories)
    THEN Range(StripNonEmpty(Split(disabled_categories[1])))
    ELSE {}

\* main.py:58-59; <<>> when the parameter is absent or empty.
custom_kw_list_of(custom_keywords) ==
    IF Truthy(custom_keywords) THEN StripNonEmpty(Split(custom_keywords[1])) ELSE <<>>

\* The category a request's own keywords are filed under (main.py:61).
Custom == <<"c", "u", "s", "t", "o", "m">>

\* file.filename.lower().endswith('.pdf')
IsPdfName(filename) ==
    /\ Len(filename) >= 4
    /\ SubSeq(Lower(filename), Len(filename) - 3, Len(filename)) = <<".", "p", "d", "f">>

\* The objects of the process that hold a keyword bank: object 0 is the
\* module-level KEYWORD_BANK, object r the dict request r creates.  A name
\* bound to a bank holds the number of its object.
BankObjects == 0..MaxRequests

\* A second name for the same dict instead of a new dict.
DictAlias(obj, fresh) == obj

\* main.py:57, dict.copy(): the result is the new object fresh.
DictCopy(obj, fresh) == fresh

\* n copies of the character ch.
Pad(ch, n) == [i \in 1..n |-> ch]

\* A text of n characters that starts with core and goes on with one long word.
Body(core, n) ==
    IF n <= Len(core) + 1 THEN SubSeq(core, 1, n)
    ELSE core \o <<" ">> \o Pad("x", n - Len(core) - 1)

\* What doc.load_page(i).get_text() gives for a page: a text, or an exception
\* with a message.
TextPage(text) == [ok |-> TRUE, text |-> text, err |-> <<>>]
BrokenPage(err) == [ok |-> FALSE, text |-> <<>>, err |-> err]

\* main.py:103, the length the message of a page error is cut to.
ErrCut == 100

\* The pages of the uploaded documents.
DocPages ==
    { TextPage(<<"l", "o", "b", "b", "y", " ", "l", "e", "d", " ", "w", "a", "l", "l">>),
      TextPage(Body(<<"L", "o", "b", "b", "y", " ", "n", "i", "t", ",">>, MinTextLen)),
      TextPage(Pad("x", MinTextLen + 1)),
      BrokenPage(<<"b", "a", "d", " ", "x", "r", "e", "f">>),
      BrokenPage(Pad("e", ErrCut + 1)) }

FileNames == {<<"a", ".", "P", "D", "F">>, <<"a", ".", "t", "x", "t">>}
CustomKeywordParams == {<<>>, <<<<" ", ",", " ">>>>, <<<<"l", "o", "b", "b", "y", " ", ",", " ", "N", "i", "t">>>>}
DisabledParams == {<<>>, <<<<" ", "s", "p", "e", "c", "s", " ", ",", "c", "u", "s", "t", "o", "m">>>>}

NoArgs == [filename |-> <<>>, custom_keywords |-> <<>>, disabled_categories |-> <<>>]

\* The entry of a failed page with the whole message of its error.
FailedPageEntryUncut(page_idx, page_err) ==
    [page_num |-> page_idx + 1, classification |-> "drawing", score |-> 0,
     text_length |-> 0, matched_keywords |-> <<>>, matched_categories |-> {},
     snippet |-> <<"[", "P", "a", "g", "e", " ", "c", "o", "u", "l", "d", " ", "n", "o", "t", " ", "b", "e", " ", "p", "a", "r", "s", "e", "d", ":", " ">>
                 \o page_err \o <<"]">>,
     recommended |-> "review"]

\* main.py:95-105
FailedPageEntry(page_idx, page_err) ==
    [page_num |-> page_idx + 1, classification |-> "drawing", score |-> 0,
     text_length |-> 0, matched_keywords |-> <<>>, matched_categories |-> {},
     snippet |-> <<"[", "P", "a", "g", "e", " ", "c", "o", "u", "l", "d", " ", "n", "o", "t", " ", "b", "e", " ", "p", "a", "r", "s", "e", "d", ":", " ">>
                 \o SubSeq(page_err, 1, IF Len(page_err) < ErrCut THEN Len(page_err) ELSE ErrCut)
                 \o <<"]">>,
     recommended |-> "review"]

\* main.py:108-124
PageEntry(page_idx, text, keyword_bank, disabled_categories) ==
    LET score_info == score_page(text, keyword_bank, disabled_categories)
    IN [page_num |-> page_idx + 1,
        classification |-> score_info.classification,
        score |-> score_info.score,
        text_length |-> Len(text),
        matched_keywords |-> score_info.matched_keywords,
        matched_categories |-> score_info.matched_categories,
        snippet |-> score_info.snippet,
        recommended |-> get_recommendation(score_info.score, score_info.classification)]

\* main.py:89-124: the entry of page page_idx, from what loading it gave.
TriagePage(page_idx, page, keyword_bank, disabled_categories) ==
    IF page.ok
    THEN PageEntry(page_idx, page.text, keyword_bank, disabled_categories)
    ELSE FailedPageEntry(page_idx, page.err)

TrIdle ==
    /\ tr_pc = [r \in Requests |-> "idle"]
    /\ tr_args = [r \in Requests |-> NoArgs]
    /\ kw_heap = [o \in BankObjects |-> IF o = 0 THEN KEYWORD_BANK ELSE <<>>]
    /\ local_kw_bank = [r \in Requests |-> PyNone]
    /\ disabled_cats_set = [r \in Requests |-> {}]
    /\ temp_files = {}
    /\ tr_reads = [r \in Requests |-> 0]
    /\ running = 0
    /\ total_pages = [r \in Requests |-> 0]
    /\ tr_doc = [r \in Requests |-> <<>>]
    /\ pages_result = [r \in Requests |-> <<>>]
    /\ text_pages_count = [r \in Requests |-> 0]
    /\ drawing_pages_count = [r \in Requests |-> 0]
    /\ triage_response = [r \in Requests |-> <<>>]

\* No pure call.
FnIdle == fn_call = [fn |-> "none"] /\ fn_result = <<>>

\* No extraction request.
ExIdle ==
    /\ pc = "start"
    /\ triage_json_ok = TRUE
    /\ pages_data = <<>>
    /\ doc_len = 0
    /\ text_page_nums = {}
    /\ drawing_page_nums = {}
    /\ text_payloads = <<>>
    /\ vision_payloads = <<>>
    /\ text_task = NoTextTask
    /\ vision_task = NoVisionTask
    /\ http_log = <<>>
    /\ response = <<>>

-----------------------------------------------------------------------------
\* POST /api/extract-specs: the steps of a request.

\* The triage result of the uploaded document itself, unchanged.
SameDoc(data) == {Len(data), CorruptDoc}

\* Any upload, with as many pages as the entries name or one fewer.
AnyDoc(data) == {CorruptDoc} \cup ((MaxPageNum - 1)..MaxPageNum)

\* A request: its triage result and its upload, the triaged document itself
\* (same_doc) or any document.
ExStart(results, same_doc) ==
    /\ pc = "start"
    /\ triage_json_ok \in BOOLEAN
    /\ pages_data \in (IF triage_json_ok THEN results ELSE {<<>>})
    /\ doc_len \in (IF ~triage_json_ok THEN {0}
                     ELSE IF same_doc THEN SameDoc(pages_data) ELSE AnyDoc(pages_data))
    /\ text_page_nums = {}
    /\ drawing_page_nums = {}
    /\ text_payloads = <<>>
    /\ vision_payloads = <<>>
    /\ text_task = NoTextTask
    /\ vision_task = NoVisionTask
    /\ http_log = <<>>
    /\ response = <<>>

\* main.py:342-346: triage_result is not JSON.
RejectTriageJson ==
    /\ pc = "start"
    /\ ~triage_json_ok
    /\ pc' = "http400"
    /\ UNCHANGED <<pages_data, doc_len, text_page_nums, drawing_page_nums, text_payloads,
                   vision_payloads, text_task, vision_task, http_log, response,
                   triage_json_ok>>
    /\ UNCHANGED <<tr_vars, fn_vars>>

\* main.py:348-361: no eligible page, the zero-valued reply without any call.
ShortCircuit ==
    /\ pc = "start"
    /\ triage_json_ok
    /\ keep_pages_of(pages_data) = <<>>
    /\ pc' = "done"
    /\ response' = <<[screens |-> <<>>, summary |-> ZeroSummary]>>
    /\ UNCHANGED <<pages_data, doc_len, text_page_nums, drawing_page_nums, text_payloads,
                   vision_payloads, text_task, vision_task, http_log, triage_json_ok>>
    /\ UNCHANGED <<tr_vars, fn_vars>>

\* main.py:348-380: the cohorts, up to the first await of the upload.
Partition ==
    /\ pc = "start"
    /\ triage_json_ok
    /\ keep_pages_of(pages_data) # <<>>
    /\ text_page_nums' = text_page_nums_of(keep_pages_of(pages_data))
    /\ drawing_page_nums' = drawing_page_nums_of(keep_pages_of(pages_data))
    /\ pc' = "upload"
    /\ UNCHANGED <<pages_data, doc_len, text_payloads, vision_payloads, text_task,
                   vision_task, http_log, response, triage_json_ok>>
    /\ UNCHANGED <<tr_vars, fn_vars>>

\* main.py:382 raising on a corrupt upload: no except clause, so HTTP 500.
OpenFails ==
    /\ pc = "upload"
    /\ doc_len = CorruptDoc
    /\ pc' = "http500"
    /\ UNCHANGED <<pages_data, doc_len, text_page_nums, drawing_page_nums, text_payloads,
                   vision_payloads, text_task, vision_task, http_log, response,
                   triage_json_ok>>
    /\ UNCHANGED <<tr_vars, fn_vars>>

\* main.py:382-422: the payloads of the pages inside the document, in the
\* iteration order of the two sets, then the coroutines handed to gather.
Dispatch ==
    /\ pc = "upload"
    /\ doc_len # CorruptDoc
    /\ \E torder \in Orderings(text_page_nums), dorder \in Orderings(drawing_page_nums) :
          /\ text_payloads' = SelectSeq(torder, LAMBDA n : InDoc(n, doc_len))
          /\ vision_payloads' = SelectSeq(dorder, LAMBDA n : InDoc(n, doc_len))
    /\ text_task' = IF text_payloads' # <<>>
                    THEN NewTextTask ELSE NoTextTask
    /\ vision_task' = IF vision_payloads' # <<>>
                      THEN NewVisionTask ELSE NoVisionTask
    /\ pc' = "gather"
    /\ UNCHANGED <<pages_data, doc_len, text_page_nums, drawing_page_nums, http_log,
                   response, triage_json_ok>>
    /\ UNCHANGED <<tr_vars, fn_vars>>

-----------------------------------------------------------------------------
\* The two coroutines.  Each POST is an await: the reply arrives in a later
\* step, and other coroutines run in between.

\* extraction.py:151-164: the one batched POST of extract_from_text.
TextPost ==
    /\ text_task.st = "pending"
    /\ text_payloads # <<>>
    /\ text_task' = [text_task EXCEPT !.st = "in_flight"]
    /\ http_log' = Append(http_log, [backend |-> "text", pages |-> text_payloads])
    /\ UNCHANGED <<pc, pages_data, doc_len, text_page_nums, drawing_page_nums,
                   text_payloads, vision_payloads, vision_task, response, triage_json_ok>>
    /\ UNCHANGED <<tr_vars, fn_vars>>

\* extraction.py:166-197: the reply of the text POST, turned into records.
TextReply(replies) ==
    /\ text_task.st = "in_flight"
    /\ \E resp \in replies :
       \E got \in {TextRecords(text_payloads, resp)} :
          text_task' = [st |-> "done", result |-> got, replies |-> <<resp>>]
    /\ UNCHANGED <<pc, pages_data, doc_len, text_page_nums, drawing_page_nums,
                   text_payloads, vision_payloads, vision_task, http_log, response,
                   triage_json_ok>>
    /\ UNCHANGED <<tr_vars, fn_vars>>

\* extraction.py:18-74: the POST for image i, reached when the loop of
\* extract_from_drawing stands at image i.
VisionPost(i) ==
    /\ vision_task.st = "pending"
    /\ i = vision_task.idx
    /\ i \in 1..Len(vision_payloads)
    /\ vision_task' = [vision_task EXCEPT !.st = "in_flight"]
    /\ http_log' = Append(http_log, [backend |-> "vision", pages |-> <<vision_payloads[i]>>])
    /\ UNCHANGED <<pc, pages_data, doc_len, text_page_nums, drawing_page_nums,
                   text_payloads, vision_payloads, text_task, response, triage_json_ok>>
    /\ UNCHANGED <<tr_vars, fn_vars>>

\* extraction.py:76-112: the reply for the current image; the loop moves on,
\* and the coroutine returns after the last image.
VisionReply(replies) ==
    /\ vision_task.st = "in_flight"
    /\ \E resp \in replies :
       \E got \in {DrawingRecords(vision_payloads[vision_task.idx], resp)} :
       \E next \in {NextImage(vision_task.idx, got)} :
          vision_task' = [st |-> IF next > Len(vision_payloads) THEN "done" ELSE "pending",
                          idx |-> next,
                          results |-> vision_task.results \o got,
                          replies |-> Append(vision_task.replies, resp),
                          added |-> Append(vision_task.added, got)]
    /\ UNCHANGED <<pc, pages_data, doc_len, text_page_nums, drawing_page_nums,
                   text_payloads, vision_payloads, text_task, http_log, response,
                   triage_json_ok>>
    /\ UNCHANGED <<tr_vars, fn_vars>>

\* A wait that returns with the first task that completes.
GatherFirstCompleted(tt, vt) ==
    \/ tt.st = "done"
    \/ vt.st = "done"
    \/ tt.st = "none" /\ vt.st = "none"

\* main.py:422: asyncio.gather resumes the handler once every task it was given
\* has returned.
GatherDone(tt, vt) == tt.st \in {"none", "done"} /\ vt.st \in {"none", "done"}

\* main.py:424-450: the merge and the reply.
Merge ==
    /\ pc = "gather"
    /\ GatherDone(text_task, vision_task)
    /\ \E ms \in 0..MaxElapsedMs :
          LET text_res    == IF text_task.st # "none" THEN text_task.result ELSE <<>>
              vision_res  == IF vision_task.st # "none" THEN vision_task.results ELSE <<>>
              all_screens == text_res \o vision_res
          IN response' = <<[screens |-> all_screens,
                            summary |-> [total_screens_found |-> Len(all_screens),
                                         from_text |-> Len(text_res),
                                         from_drawings |-> Len(vision_res),
                                         text_pages_processed |-> Len(text_payloads),
                                         drawing_pages_processed |-> Len(vision_payloads),
                                         processing_time_ms |-> ms]]>>
    /\ pc' = "done"
    /\ UNCHANGED <<pages_data, doc_len, text_page_nums, drawing_page_nums, text_payloads,
                   vision_payloads, text_task, vision_task, http_log, triage_json_ok>>
    /\ UNCHANGED <<tr_vars, fn_vars>>

\* The replies the backends give an orchestrated request.
GoodVisionReply == Http(200, "ok", <<"[A,B]">>, <<>>)
GoodTextReply == Http(200, "ok", <<"<fence>json", "\n", "[B,C]", "\n", "<fence>">>, <<>>)

OrchVisionReplies == {GoodVisionReply, TransportError("ReadTimeout"),
                      Http(200, "ok", <<"{}">>, <<>>)}
OrchTextReplies == {GoodTextReply, TransportError("ConnectError"),
                    Http(200, "ok", <<"Sorry, nothing found">>, <<>>)}

ExNext ==
    \/ RejectTriageJson
    \/ ShortCircuit
    \/ Partition
    \/ OpenFails
    \/ Dispatch
    \/ TextPost
    \/ TextReply(OrchTextReplies)
    \/ \E i \in 1..(MaxPages + MaxPageNum) : VisionPost(i)
    \/ VisionReply(OrchVisionReplies)
    \/ Merge

Init == ExStart(TriageOutputs, TRUE) /\ TrIdle /\ FnIdle

RoutingInit == ExStart(EditedTriageResults, FALSE) /\ TrIdle /\ FnIdle


Next == ExNext

Spec == Init /\ [][Next]_vars

SpecRouting == RoutingInit /\ [][Next]_vars

-----------------------------------------------------------------------------
\* POST /api/extract-specs/vision and /api/extract-specs/text: the two
\* extraction functions called on a payload the client sends.

Payloads == UNION {[1..n -> 1..MaxPageNum] : n \in 0..MaxPayload}

EpInit == ExIdle /\ TrIdle /\ FnIdle

\* main.py:298-307
ExtractSpecsVision ==
    /\ pc = "start"
    /\ \E images \in Payloads :
          IF images = <<>>
          THEN /\ pc' = "http400"
               /\ UNCHANGED <<vision_payloads, vision_task>>
          ELSE /\ pc' = "vision"
               /\ vision_payloads' = images
               /\ vision_task' = NewVisionTask
    /\ UNCHANGED <<pages_data, doc_len, text_page_nums, drawing_page_nums, text_payloads,
                   text_task, http_log, response, triage_json_ok>>
    /\ UNCHANGED <<tr_vars, fn_vars>>

\* main.py:317-326
ExtractSpecsText ==
    /\ pc = "start"
    /\ \E pages \in Payloads :
          IF pages = <<>>
          THEN /\ pc' = "http400"
               /\ UNCHANGED <<text_payloads, text_task>>
          ELSE /\ pc' = "text"
               /\ text_payloads' = pages
               /\ text_task' = NewTextTask
    /\ UNCHANGED <<pages_data, doc_len, text_page_nums, drawing_page_nums, vision_payloads,
                   vision_task, http_log, response, triage_json_ok>>
    /\ UNCHANGED <<tr_vars, fn_vars>>

\* main.py:308-315 and 327-334
EndpointReturn ==
    /\ \/ pc = "vision" /\ vision_task.st = "done"
       \/ pc = "text" /\ text_task.st = "done"
    /\ \E ms \in 0..MaxElapsedMs :
          response' = <<[screens |-> IF pc = "vision" THEN vision_task.results
                                     ELSE text_task.result,
                         processing_time_ms |-> ms,
                         model |-> IF pc = "vision" THEN "glm-4.6v-flash"
                                   ELSE "anything-llm/gemini",
                         pages_processed |-> IF pc = "vision" THEN Len(vision_payloads)
                                             ELSE Len(text_payloads)]>>
    /\ pc' = "done"
    /\ UNCHANGED <<pages_data, doc_len, text_page_nums, drawing_page_nums, text_payloads,
                   vision_payloads, text_task, vision_task, http_log, triage_json_ok>>
    /\ UNCHANGED <<tr_vars, fn_vars>>

Fenced(c) == <<"<fence>json", "\n">> \o c \o <<"\n", "<fence>">>

\* Reply contents: every JSON text bare and fenced, prose, nothing, a fence
\* that is never followed by a line break, a JSON text padded or followed by
\* prose.
Contents ==
    {<<t>> : t \in JsonTokens} \cup {Fenced(<<t>>) : t \in JsonTokens}
    \cup {<<>>, <<"Sorry, nothing found">>, Fenced(<<"Sorry, nothing found">>),
          <<"<fence>", "[A]">>, <<" ", "[A,B]", "\n">>, <<"[A]", "Sorry, nothing found">>}

TransportErrors == {TransportError("ConnectError"), TransportError("ReadTimeout")}

VisionReplies ==
    TransportErrors
    \cup {Http(st, "ok", <<"[A]">>, <<>>) : st \in {201, 404, 500}}
    \cup {Http(200, b, <<>>, <<>>) : b \in {"not_json", "no_key"}}
    \cup {Http(200, "ok", c, <<>>) : c \in Contents}
    \cup {Http(200, "ok", ws, c) : ws \in {<<>>, <<" ">>},
                                   c \in {<<"[A,B]">>, <<"{}">>, <<"Sorry, nothing found">>}}

TextReplies ==
    TransportErrors
    \cup {Http(st, "ok", <<"[A]">>, <<>>) : st \in {201, 404, 500}}
    \cup {Http(200, b, <<>>, <<>>) : b \in {"not_json", "no_key", "null_content"}}
    \cup {Http(200, "ok", c, <<>>) : c \in Contents}

EpNext ==
    \/ ExtractSpecsVision
    \/ ExtractSpecsText
    \/ TextPost
    \/ TextReply(TextReplies)
    \/ \E i \in 1..MaxPayload : VisionPost(i)
    \/ VisionReply(VisionReplies)
    \/ EndpointReturn

SpecEndpoints == EpInit /\ [][EpNext]_vars

\* The scheduling of one request: the event loop runs a runnable coroutine
\* whenever there is one, and every POST ends with a reply or a failure (each
\* carries a timeout, extraction.py:60 and 151), so a step that stays possible
\* is eventually taken.
LiveSpec == Spec /\ WF_vars(Next)

-----------------------------------------------------------------------------
\* POST /api/triage: the steps of a request.

\* main.py:47-71: from the call of the handler to its first await.  The event
\* loop runs one handler at a time: running is the request that is between its
\* last await and its return, 0 when there is none.
TriageStart(r) ==
    /\ running = 0
    /\ tr_pc[r] = "idle"
    /\ \E filename \in FileNames, custom_keywords \in CustomKeywordParams,
          disabled_categories \in DisabledParams :
          /\ tr_args' = [tr_args EXCEPT ![r] =
                            [filename |-> filename, custom_keywords |-> custom_keywords,
                             disabled_categories |-> disabled_categories]]
          /\ IF ~IsPdfName(filename)
             THEN /\ tr_pc' = [tr_pc EXCEPT ![r] = "http400"]
                  /\ UNCHANGED <<kw_heap, local_kw_bank, disabled_cats_set, temp_files>>
             ELSE \E ref \in {DictCopy(0, r)} :
                  LET copied == [kw_heap EXCEPT ![r] = kw_heap[0]]
                      custom_kw_list == custom_kw_list_of(custom_keywords)
                  IN /\ disabled_cats_set' = [disabled_cats_set EXCEPT ![r] =
                                                 disabled_cats_set_of(disabled_categories)]
                     /\ local_kw_bank' = [local_kw_bank EXCEPT ![r] = ref]
                     /\ kw_heap' = IF custom_kw_list # <<>>
                                   THEN [copied EXCEPT ![ref] =
                                            BankSetItem(copied[ref], Custom, custom_kw_list)]
                                   ELSE copied
                     /\ temp_files' = temp_files \cup {r}
                     /\ tr_pc' = [tr_pc EXCEPT ![r] = "reading"]
    /\ UNCHANGED <<tr_reads, running, total_pages, tr_doc, pages_result, text_pages_count,
                   drawing_pages_count, triage_response>>
    /\ UNCHANGED <<ex_vars, fn_vars>>

\* main.py:76-79: await file.read(8192) returning a chunk, written to the
\* temporary file.  Other handlers run while the read is awaited.
ReadChunk(r) ==
    /\ running = 0
    /\ tr_pc[r] = "reading"
    /\ tr_reads[r] < MaxChunks
    /\ tr_reads' = [tr_reads EXCEPT ![r] = @ + 1]
    /\ UNCHANGED <<tr_pc, tr_args, kw_heap, local_kw_bank, disabled_cats_set, temp_files,
                   running, total_pages, tr_doc, pages_result, text_pages_count,
                   drawing_pages_count, triage_response>>
    /\ UNCHANGED <<ex_vars, fn_vars>>

\* main.py:76-87 and 126-133: the read that returns no chunk, the size check
\* and fitz.open.  An oversized upload raises HTTPException(400) inside the
\* try, which the except Exception clause turns into a 500.
ReadEof(r, max_pages) ==
    /\ running = 0
    /\ tr_pc[r] = "reading"
    /\ \E upload \in {"pdf", "corrupt", "too_large"} :
          IF upload = "pdf"
          THEN /\ \E n \in 0..max_pages : total_pages' = [total_pages EXCEPT ![r] = n]
               /\ tr_pc' = [tr_pc EXCEPT ![r] = "pages"]
               /\ running' = r
               /\ UNCHANGED temp_files
          ELSE /\ tr_pc' = [tr_pc EXCEPT ![r] =
                               IF upload = "corrupt" THEN "http400" ELSE "http500"]
               /\ temp_files' = temp_files \ {r}
               /\ UNCHANGED <<total_pages, running>>
    /\ UNCHANGED <<tr_args, kw_heap, local_kw_bank, disabled_cats_set, tr_reads, tr_doc,
                   pages_result, text_pages_count, drawing_pages_count, triage_response>>
    /\ UNCHANGED <<ex_vars, fn_vars>>

\* The pass of the loop without the count of line 95: a page that failed to
\* load is reported and not counted.
ProcessPageUncountedFailure(r) ==
    /\ running = r
    /\ tr_pc[r] = "pages"
    /\ Len(tr_doc[r]) < total_pages[r]
    /\ \E page \in DocPages :
       \E entry \in {TriagePage(Len(tr_doc[r]), page, kw_heap[local_kw_bank[r]],
                                disabled_cats_set[r])} :
          /\ tr_doc' = [tr_doc EXCEPT ![r] = Append(@, page)]
          /\ pages_result' = [pages_result EXCEPT ![r] = Append(@, entry)]
          /\ text_pages_count' = [text_pages_count EXCEPT ![r] =
                                     IF entry.classification = "text" THEN @ + 1 ELSE @]
          /\ drawing_pages_count' = [drawing_pages_count EXCEPT ![r] =
                                        IF entry.classification = "text" \/ ~page.ok
                                        THEN @ ELSE @ + 1]
    /\ UNCHANGED <<tr_pc, tr_args, kw_heap, local_kw_bank, disabled_cats_set, temp_files,
                   tr_reads, running, total_pages, triage_response>>
    /\ UNCHANGED <<ex_vars, fn_vars>>

\* main.py:88-124: one pass of the loop over the pages.  tr_doc[r] keeps what
\* each page gave, so page_idx is its length.
ProcessPage(r) ==
    /\ running = r
    /\ tr_pc[r] = "pages"
    /\ Len(tr_doc[r]) < total_pages[r]
    /\ \E page \in DocPages :
       \E entry \in {TriagePage(Len(tr_doc[r]), page, kw_heap[local_kw_bank[r]],
                                disabled_cats_set[r])} :
          /\ tr_doc' = [tr_doc EXCEPT ![r] = Append(@, page)]
          /\ pages_result' = [pages_result EXCEPT ![r] = Append(@, entry)]
          /\ text_pages_count' = [text_pages_count EXCEPT ![r] =
                                     IF entry.classification = "text" THEN @ + 1 ELSE @]
          /\ drawing_pages_count' = [drawing_pages_count EXCEPT ![r] =
                                        IF entry.classification = "text" THEN @ ELSE @ + 1]
    /\ UNCHANGED <<tr_pc, tr_args, kw_heap, local_kw_bank, disabled_cats_set, temp_files,
                   tr_reads, running, total_pages, triage_response>>
    /\ UNCHANGED <<ex_vars, fn_vars>>

\* main.py:130-144: after the last page, the temporary file removed and the
\* reply returned.
TriageReturn(r) ==
    /\ running = r
    /\ tr_pc[r] = "pages"
    /\ Len(tr_doc[r]) = total_pages[r]
    /\ \E ms \in 0..MaxElapsedMs :
          triage_response' = [triage_response EXCEPT ![r] =
              <<[filename |-> tr_args[r].filename,
                 total_pages |-> total_pages[r],
                 text_pages |-> text_pages_count[r],
                 drawing_pages |-> drawing_pages_count[r],
                 processing_time_ms |-> ms,
                 pages |-> pages_result[r]]>>]
    /\ temp_files' = temp_files \ {r}
    /\ running' = 0
    /\ tr_pc' = [tr_pc EXCEPT ![r] = "done"]
    /\ UNCHANGED <<tr_args, kw_heap, local_kw_bank, disabled_cats_set, tr_reads,
                   total_pages, tr_doc, pages_result, text_pages_count,
                   drawing_pages_count>>
    /\ UNCHANGED <<ex_vars, fn_vars>>

\* A step of request r, whose upload has at most max_pages pages.
TriageStep(r, max_pages) ==
    \/ TriageStart(r)
    \/ ReadChunk(r)
    \/ ReadEof(r, max_pages)
    \/ ProcessPage(r)
    \/ TriageReturn(r)

TriageInit == ExIdle /\ TrIdle /\ FnIdle

\* Several requests, interleaved at their awaits, each with a short document.
TriageNext == \E r \in Requests : TriageStep(r, MaxSharedDocPages)

SpecTriage == TriageInit /\ [][TriageNext]_vars

\* One request with a longer document.
TriageDocNext == TriageStep(1, MaxDocPages)

SpecTriageDoc == TriageInit /\ [][TriageDocNext]_vars

-----------------------------------------------------------------------------
\* The pure functions called on their own: a call is drawn, the function
\* applied, its value kept in fn_result.

\* Page texts: a core padded to a length around MinTextLen, with white space
\* before and after, and texts without any word.
Cores == {<<"l", "e", "d", " ", "w", "a", "l", "l", " ", "n", "i", "t">>, <<"L", "E", "D", " ", "W", "a", "l", "l", ",", " ", "N", "i", "t", ".">>, <<"l", "e", "d", "g", "e", "r", " ", "n", "i", "t", "s">>, <<"l", "e", "d", " ", "d", "i", "s", "p", "l", "a", "y", " ", "l", "e", "d", " ", "d", "i", "s", "p", "l", "a", "y">>,
          <<"z", "-", "c", "l", "i", "p", " ", "b", "y", " ", "n", "e", "c">>, <<"l", "o", "b", "b", "y", " ", "s", "i", "g", "n", "_", "a", "3">>}
Leads == {<<>>, <<" ", "\n">>}
Trails == {<<>>, <<"\t">>}

Texts ==
    {lead \o Body(core, n) \o trail :
        lead \in Leads, trail \in Trails, core \in Cores,
        n \in {8} \cup ((MinTextLen - MaxSlack)..(MinTextLen + MaxSlack))}
    \cup {<<>>, Pad(" ", MinTextLen + 1), Pad(".", MinTextLen),
          <<"n", "i", "t">> \o Pad("-", MinTextLen)}

\* Banks: the base bank, and the base bank with a request's own keywords.
Banks == {KEYWORD_BANK,
          BankSetItem(KEYWORD_BANK, Custom, <<<<"l", "o", "b", "b", "y">>>>),
          BankSetItem(KEYWORD_BANK, Custom, <<<<"L", "E", "D">>, <<"s", "i", "g", "n">>>>)}

DisabledSets == {{}, {Custom}, {<<"s", "p", "e", "c", "s">>, <<"d", "i", "s", "p", "l", "a", "y", "_", "h", "a", "r", "d", "w", "a", "r", "e">>}}

\* Scores in ten-thousandths, and classifications (any other string stands
\* for a classification that is not drawing).
Scores == (0 - MaxScore)..MaxScore
ClassificationArgs == {"text", "drawing", "other"}

Calls ==
    {[fn |-> "get_recommendation", score |-> s, classification |-> c] :
        s \in Scores, c \in ClassificationArgs}
    \cup {[fn |-> "score_page", text |-> t, keyword_bank |-> b, disabled_categories |-> d] :
            t \in Texts, b \in Banks, d \in DisabledSets}
    \cup {[fn |-> "normalize_text", text |-> t] : t \in Texts}
    \cup {[fn |-> "triage_page", page_idx |-> 0, page |-> p, keyword_bank |-> b,
            disabled_categories |-> d] :
            p \in DocPages \cup {TextPage(t) : t \in Texts}, b \in Banks, d \in DisabledSets}
    \cup {[fn |-> "score_value", hits |-> h, text_length |-> n] :
            h \in 0..MaxHits, n \in 1..MaxTextLen}
    \cup {[fn |-> "score_value", hits |-> 0, text_length |-> 0]}

CallGetRecommendation ==
    /\ fn_call.fn = "get_recommendation"
    /\ fn_result = <<>>
    /\ fn_result' = <<get_recommendation(fn_call.score, fn_call.classification)>>
    /\ UNCHANGED <<fn_call, ex_vars, tr_vars>>

CallScorePage ==
    /\ fn_call.fn = "score_page"
    /\ fn_result = <<>>
    /\ fn_result' = <<score_page(fn_call.text, fn_call.keyword_bank,
                                 fn_call.disabled_categories)>>
    /\ UNCHANGED <<fn_call, ex_vars, tr_vars>>

CallNormalizeText ==
    /\ fn_call.fn = "normalize_text"
    /\ fn_result = <<>>
    /\ fn_result' = <<normalize_text(fn_call.text)>>
    /\ UNCHANGED <<fn_call, ex_vars, tr_vars>>

CallTriagePage ==
    /\ fn_call.fn = "triage_page"
    /\ fn_result = <<>>
    /\ fn_result' = <<TriagePage(fn_call.page_idx, fn_call.page, fn_call.keyword_bank,
                                 fn_call.disabled_categories)>>
    /\ UNCHANGED <<fn_call, ex_vars, tr_vars>>

\* keyword_bank.py:152-160 on a hit count and a normalized length; an empty
\* normalized text has no hit.
CallScoreValue ==
    /\ fn_call.fn = "score_value"
    /\ fn_result = <<>>
    /\ fn_result' = <<RoundedScore(fn_call.hits, fn_call.text_length)>>
    /\ UNCHANGED <<fn_call, ex_vars, tr_vars>>

PureNext ==
    \/ CallGetRecommendation
    \/ CallScorePage
    \/ CallNormalizeText
    \/ CallTriagePage
    \/ CallScoreValue

PureInit == ExIdle /\ TrIdle /\ fn_call \in Calls /\ fn_result = <<>>

SpecPure == PureInit /\ [][PureNext]_vars

-----------------------------------------------------------------------------
\* Properties of the extraction orchestrator.

EligibleEntries == {i \in 1..Len(pages_data) :
                      pages_data[i].recommended \in {"keep", "maybe", "review"}}

EligiblePagesOf(class) ==
    {pages_data[i].page_num : i \in {j \in EligibleEntries : pages_data[j].classification = class}}

CallsTo(backend) == SelectSeq(http_log, LAMBDA c : c.backend = backend)

SummaryFields == {"total_screens_found", "from_text", "from_drawings",
                  "text_pages_processed", "drawing_pages_processed", "processing_time_ms"}

\* C1: with no entry recommended keep, maybe or review, neither extraction
\* function is ever invoked and no POST is ever issued, and the reply has no
\* screens and a summary whose every field is 0.
C1_NoEligibleNoCalls ==
    (triage_json_ok /\ EligibleEntries = {}) =>
        /\ http_log = <<>>
        /\ text_task.st = "none"
        /\ vision_task.st = "none"
        /\ pc \in {"start", "done"}
        /\ pc = "done" =>
             /\ Len(response) = 1
             /\ response[1].screens = <<>>
             /\ DOMAIN response[1].summary = SummaryFields
             /\ \A f \in SummaryFields : response[1].summary[f] = 0

\* C1 witness: a request whose pages are all discard has been answered.
C1_Witness ==
    /\ pc = "done"
    /\ Len(pages_data) >= 2
    /\ \A i \in 1..Len(pages_data) : pages_data[i].recommended = "discard"

AllEligibleInDoc ==
    \A i \in EligibleEntries : InDoc(pages_data[i].page_num, doc_len)

\* C2: a finished request whose eligible pages all lie in the document has
\* issued one text POST if it has an eligible text page and none otherwise,
\* and one vision POST per eligible drawing page, each carrying one image.
C2_CallCounts ==
    (pc = "done" /\ AllEligibleInDoc) =>
        /\ Len(CallsTo("text")) = IF EligiblePagesOf("text") # {} THEN 1 ELSE 0
        /\ Len(CallsTo("vision")) = Cardinality(EligiblePagesOf("drawing"))
        /\ \A p \in EligiblePagesOf("drawing") :
              Len(SelectSeq(http_log, LAMBDA c : c.backend = "vision" /\ c.pages = <<p>>)) = 1
        /\ \A i \in 1..Len(http_log) :
              http_log[i].backend = "text" => Range(http_log[i].pages) = EligiblePagesOf("text")

\* C2 witness: one text page and two drawing pages gave one text POST and
\* two vision POSTs.
C2_Witness ==
    /\ pc = "done"
    /\ Cardinality(EligiblePagesOf("text")) = 1
    /\ Cardinality(EligiblePagesOf("drawing")) = 2
    /\ Len(CallsTo("text")) = 1
    /\ Len(CallsTo("vision")) = 2

\* The images whose POST has not been issued yet.
UnpostedImages ==
    IF vision_task.st \in {"none", "done"} THEN {}
    ELSE {i \in 1..Len(vision_payloads) :
            i > vision_task.idx \/ (i = vision_task.idx /\ vision_task.st = "pending")}

\* C3 (as the claim states it): once the coroutines are dispatched, no vision
\* POST has to wait for another POST to finish: the POST of every image not
\* yet posted can be issued at once.
C3_VisionCallsNeverWait ==
    \A i \in 1..MaxPages : (pc = "gather" /\ i \in UnpostedImages) => ENABLED VisionPost(i)

\* What the code does instead: at most one vision POST is in flight, and an
\* image is posted only after the replies of all the images before it.
C3_VisionCallsSerial ==
    /\ vision_task.st = "in_flight" => Len(vision_task.replies) = vision_task.idx - 1
    /\ Len(CallsTo("vision")) <= Len(vision_task.replies) + 1

\* Every POST issued has been answered and every task given to gather returned.
AllCallsComplete ==
    /\ text_task.st \in {"none", "done"}
    /\ vision_task.st \in {"none", "done"}
    /\ text_task.st = "done" => Len(text_task.replies) = 1 /\ Len(CallsTo("text")) = 1
    /\ vision_task.st = "done" =>
          /\ Len(vision_task.replies) = Len(vision_payloads)
          /\ Len(CallsTo("vision")) = Len(vision_payloads)
    /\ (text_payloads # <<>>) = (text_task.st = "done")
    /\ (vision_payloads # <<>>) = (vision_task.st = "done")

\* C4: the request returns only when every dispatched call has completed,
\* whatever failed (no early return, no call dropped), and when every call
\* ends the request ends.
C4_Barrier ==
    /\ [](pc = "done" => AllCallsComplete)
    /\ <>(pc \in {"done", "http400", "http500"})

\* C4 witness: a request returned after a failed text call and a failed and
\* a successful vision call.
C4_Witness ==
    /\ pc = "done"
    /\ Len(text_task.replies) = 1 /\ text_task.replies[1].kind = "exception"
    /\ Len(vision_task.replies) >= 2
    /\ vision_task.replies[1].kind = "exception"
    /\ vision_task.replies[2] = GoodVisionReply

MergedScreens == response[1].screens

ScreensOfPage(p) ==
    SelectSeq(MergedScreens, LAMBDA r : r.source_type = "drawing" /\ r.source_page = p)

ScreensOfText == SelectSeq(MergedScreens, LAMBDA r : r.source_type = "text")

\* C5: in the merged result the records of each drawing page are those its
\* own reply gives, one zero-confidence sentinel when its call failed in
\* transport, and the text records are those the text reply gives: no call's
\* failure changes the records of another call, and the request succeeds.
C5_FailureIsolation ==
    (pc = "done" /\ EligibleEntries # {}) =>
        /\ Len(response) = 1
        /\ Len(vision_task.replies) = Len(vision_payloads)
        /\ \A i \in 1..Len(vision_payloads) :
              LET p == vision_payloads[i]
                  r == vision_task.replies[i]
              IN /\ ScreensOfPage(p) = DrawingRecords(p, r)
                 /\ r.kind = "exception" =>
                       /\ Len(ScreensOfPage(p)) = 1
                       /\ ScreensOfPage(p)[1].confidence = 0
                 /\ r = GoodVisionReply =>
                       /\ Len(ScreensOfPage(p)) = 2
                       /\ ScreensOfPage(p)[1].screen_name = ScreenA.screen_name
                       /\ ScreensOfPage(p)[2].screen_name = ScreenB.screen_name
        /\ Len(text_task.replies) = (IF text_payloads # <<>> THEN 1 ELSE 0)
        /\ ScreensOfText = IF text_payloads # <<>>
                           THEN TextRecords(text_payloads, text_task.replies[1])
                           ELSE <<>>
        /\ (text_payloads # <<>> /\ text_task.replies[1].kind = "exception") =>
              Len(ScreensOfText) = 1 /\ ScreensOfText[1].confidence = 0
        /\ Len(MergedScreens) = Len(ScreensOfText) + Len(vision_task.results)

\* C5 witness: the first of two vision calls failed in transport, the second
\* and the text call succeeded.
C5_Witness ==
    /\ pc = "done"
    /\ Len(vision_task.replies) = 2
    /\ vision_task.replies[1].kind = "exception"
    /\ vision_task.replies[2] = GoodVisionReply
    /\ Len(text_task.replies) = 1 /\ text_task.replies[1] = GoodTextReply
    /\ Len(ScreensOfPage(vision_payloads[1])) = 1
    /\ Len(ScreensOfPage(vision_payloads[2])) = 2

\* The text of a reply body the backend's screens are parsed from.
ReplyText(backend, r) ==
    IF backend = "vision" /\ Strip(r.content) = <<>> THEN r.reasoning ELSE r.content

\* The reply is a 2xx response whose text, fence stripped, is a JSON array of
\* screen objects.
IsScreenArray(backend, r) ==
    /\ r.kind = "http"
    /\ IsSuccess(r.status)
    /\ r.body = "ok"
    /\ LET c == StripFence(Strip(ReplyText(backend, r)))
       IN /\ c.ok
          /\ json_loads(c.v).ok
          /\ json_loads(c.v).val.t = "list"
          /\ \A i \in 1..Len(json_loads(c.v).val.items) : json_loads(c.v).val.items[i].isdict

IsOneSentinel(recs) ==
    /\ Len(recs) = 1
    /\ recs[1].confidence = 0
    /\ recs[1].screen_name \in {"PARSE_ERROR", "API_ERROR"}
    /\ "raw_notes" \in DOMAIN recs[1]

\* C6 (the claim): every call that ends in a transport failure, a non-2xx
\* status or a body that is no array of screen objects contributes exactly
\* one sentinel record.
C6_OneSentinelPerFailedCall ==
    /\ \A i \in 1..Len(vision_task.replies) :
          ~IsScreenArray("vision", vision_task.replies[i]) => IsOneSentinel(vision_task.added[i])
    /\ (text_task.st = "done" /\ ~IsScreenArray("text", text_task.replies[1])) =>
          IsOneSentinel(text_task.result)

\* C7: a page is put in a payload only for an eligible entry of its
\* classification, at most once per cohort, and each POST carries only the
\* payloads of its own cohort.
C7_Routing ==
    /\ Range(text_payloads) \subseteq EligiblePagesOf("text")
    /\ Range(vision_payloads) \subseteq EligiblePagesOf("drawing")
    /\ Cardinality(Range(text_payloads)) = Len(text_payloads)
    /\ Cardinality(Range(vision_payloads)) = Len(vision_payloads)
    /\ \A i \in 1..Len(http_log) :
          /\ http_log[i].backend = "text" => http_log[i].pages = text_payloads
          /\ http_log[i].backend = "vision" =>
                Range(http_log[i].pages) \subseteq Range(vision_payloads)
    /\ \A i, j \in 1..Len(http_log) : (i # j) => http_log[i] # http_log[j]

\* C7 witness: a drawing page listed twice was posted once, while the text
\* backend got nothing.
C7_Witness ==
    /\ pc = "done"
    /\ Len(pages_data) = 2
    /\ pages_data[1].page_num = pages_data[2].page_num
    /\ \A i \in 1..2 : pages_data[i].classification = "drawing" /\ i \in EligibleEntries
    /\ Len(vision_payloads) = 1
    /\ Len(http_log) = 1

-----------------------------------------------------------------------------
\* Properties of the triage scorer and of the triage endpoint.

\* C8: get_recommendation returns a recommendation for every score and
\* classification, and it is the reference policy: drawing gives review at any
\* score; otherwise a score of 0.3 or more gives keep, a score strictly between
\* 0 and 0.3 gives maybe, a score of 0 or less gives discard (0.0 discard, 0.15
\* maybe, 0.3 keep, 0.5 keep); and no page entry classified drawing is ever
\* recommended discard.
C8_ReferencePolicy ==
    /\ (fn_call.fn = "get_recommendation" /\ fn_result # <<>>) =>
          LET s == fn_call.score
              c == fn_call.classification
              out == fn_result[1]
          IN /\ out \in Recommendations
             /\ c = "drawing" => out = "review"
             /\ (c # "drawing" /\ s >= 3000) => out = "keep"
             /\ (c # "drawing" /\ 0 < s /\ s < 3000) => out = "maybe"
             /\ (c # "drawing" /\ s <= 0) => out = "discard"
             /\ (c = "text" /\ s = 0) => out = "discard"
             /\ (c = "text" /\ s = 1500) => out = "maybe"
             /\ (c = "text" /\ s = 3000) => out = "keep"
             /\ (c = "text" /\ s = 5000) => out = "keep"
    /\ (fn_call.fn = "triage_page" /\ fn_result # <<>>) =>
          (fn_result[1].classification = "drawing" => fn_result[1].recommended = "review")

\* C8 witness: the score 0.3 itself was mapped to keep.
C8_Witness ==
    /\ fn_call = [fn |-> "get_recommendation", score |-> 3000, classification |-> "text"]
    /\ fn_result = <<"keep">>

\* The length of a text between its first and its last character that is not
\* white space.
TrimmedLen(text) ==
    LET solid == {i \in 1..Len(text) : text[i] \notin {" ", "\n", "\t"}}
    IN IF solid = {} THEN 0
       ELSE (CHOOSE i \in solid : \A j \in solid : j <= i)
            - (CHOOSE i \in solid : \A j \in solid : i <= j) + 1

\* C9: for a text that is empty or has fewer than 50 characters once trimmed,
\* score_page returns classification drawing, score 0, no matched keyword, no
\* matched category and an empty snippet, whatever the text, the bank and the
\* disabled set.
C9_ShortTextIsDrawing ==
    (fn_call.fn = "score_page" /\ fn_result # <<>>
        /\ (fn_call.text = <<>> \/ TrimmedLen(fn_call.text) < 50)) =>
        fn_result[1] = [classification |-> "drawing", score |-> 0, matched_keywords |-> <<>>,
                        matched_categories |-> {}, snippet |-> <<>>]

\* C9 witness: a text of 49 characters between white space, 51 in all, that
\* holds three keywords of the bank, was scored as a drawing.
C9_Witness ==
    /\ fn_call.fn = "score_page"
    /\ fn_result # <<>>
    /\ fn_call.text = <<" ", "\n">> \o Body(<<"l", "e", "d", " ", "w", "a", "l", "l", " ", "n", "i", "t">>, 49)
    /\ fn_call.disabled_categories = {}
    /\ fn_result[1].classification = "drawing"
    /\ fn_result[1].matched_keywords = <<>>

\* The keywords request r supplied.
CustomListOf(r) == custom_kw_list_of(tr_args[r].custom_keywords)

\* One of the keywords request r supplied occurs, as a whole word or phrase,
\* in the normalized text of the i-th page it loaded.
CustomMatchesPage(r, i) ==
    /\ tr_doc[r][i].ok
    /\ \E k \in 1..Len(CustomListOf(r)) :
          MatchCount(CustomListOf(r)[k], normalize_text(tr_doc[r][i].text)) > 0

\* The base bank is what it was when the process started.
BaseBankIntact == kw_heap[0] = KEYWORD_BANK

\* A request that supplied no keyword of its own reports custom for no page.
NoCustomWithoutKeywords ==
    \A r \in Requests :
        CustomListOf(r) = <<>> =>
            \A i \in 1..Len(pages_result[r]) : Custom \notin pages_result[r][i].matched_categories

\* The reply carries the entries of the pages as they were built.
ReplyCarriesEntries ==
    \A r \in Requests : tr_pc[r] = "done" => triage_response[r][1].pages = pages_result[r]

-----------------------------------------------------------------------------
\* Properties of the page loop of the triage endpoint.

\* The pages of request r that failed to load, among those it has gone through.
FailedPagesOf(r) == {i \in 1..Len(tr_doc[r]) : ~tr_doc[r][i].ok}

\* What the snippet of a failed page starts with.
ParseFailPrefix == <<"[", "P", "a", "g", "e", " ", "c", "o", "u", "l", "d", " ", "n", "o", "t", " ", "b", "e", " ", "p", "a", "r", "s", "e", "d", ":", " ">>

\* The entry of page i of request r is the entry of a page that failed to load.
IsFailedEntry(r, i) ==
    LET e == pages_result[r][i]
        msg == tr_doc[r][i].err
    IN /\ e.page_num = i
       /\ e.classification = "drawing"
       /\ e.score = 0
       /\ e.recommended = "review"
       /\ e.matched_keywords = <<>>
       /\ e.matched_categories = {}
       /\ Len(e.snippet) >= Len(ParseFailPrefix) + 1
       /\ SubSeq(e.snippet, 1, Len(ParseFailPrefix)) = ParseFailPrefix
       /\ e.snippet[Len(e.snippet)] = "]"
       /\ LET shown == SubSeq(e.snippet, Len(ParseFailPrefix) + 1, Len(e.snippet) - 1)
          IN /\ Len(shown) <= 100
             /\ Len(msg) <= 100 => shown = msg
             /\ Len(msg) > 100 => shown = SubSeq(msg, 1, 100)

\* A page that fails to load never ends the request: once the document is
\* open the request only goes through its pages and returns, every page gone
\* through has its entry, and the reply has an entry for every page.
PageLoopNeverAborts ==
    \A r \in Requests :
        /\ tr_doc[r] # <<>> => tr_pc[r] \in {"pages", "done"}
        /\ Len(pages_result[r]) = Len(tr_doc[r])
        /\ tr_pc[r] = "done" =>
              /\ Len(triage_response[r][1].pages) = triage_response[r][1].total_pages
              /\ triage_response[r][1].pages = pages_result[r]
              /\ Len(tr_doc[r]) = total_pages[r]

\* C11 (as the claim states it): a page that fails to load never aborts the
\* request, its entry is a sentinel with classification drawing, score 0 and
\* recommended review, the snippet of the sentinel has at most 100 characters,
\* and every later page is still processed and reported.
C11_SnippetWithin100 ==
    /\ PageLoopNeverAborts
    /\ \A r \in Requests : \A i \in FailedPagesOf(r) :
          /\ pages_result[r][i].classification = "drawing"
          /\ pages_result[r][i].score = 0
          /\ pages_result[r][i].recommended = "review"
          /\ Len(pages_result[r][i].snippet) <= 100

\* C11 (amended): a page that fails to load never aborts the request, its
\* entry is a sentinel with classification drawing, score 0 and recommended
\* review whose snippet is "[Page could not be parsed: ", the message of the
\* error cut to its first 100 characters, and "]" (128 characters at most),
\* and every later page is still processed and reported, whichever pages fail.
C11_FailedPageIsSentinel ==
    /\ PageLoopNeverAborts
    /\ \A r \in Requests : \A i \in FailedPagesOf(r) :
          /\ IsFailedEntry(r, i)
          /\ Len(pages_result[r][i].snippet) <= 128

\* C11 witness: a request returned three entries for a document whose first
\* and third pages failed to load, the third with a message of 101
\* characters, and whose second page was scored as text.
C11_Witness ==
    /\ tr_pc[1] = "done"
    /\ Len(tr_doc[1]) = 3
    /\ FailedPagesOf(1) = {1, 3}
    /\ Len(tr_doc[1][3].err) = 101
    /\ Len(triage_response[1][1].pages) = 3
    /\ triage_response[1][1].pages[2].classification = "text"
    /\ Len(triage_response[1][1].pages[3].snippet) = 128

-----------------------------------------------------------------------------
\* Properties of normalize_text and of the scoring of a page.

\* Letters and digits.
Alphanumerics == LowerLetters \cup UpperLetters \cup Digits

\* A text is canonical: lowercase, made of letters, digits and blanks only,
\* with no blank at either end and no two white-space characters in a row.
IsCanonical(s) ==
    /\ \A i \in 1..Len(s) : s[i] \notin UpperLetters
    /\ \A i \in 1..Len(s) : s[i] \in Alphanumerics \/ s[i] = " "
    /\ s # <<>> => (s[1] \notin WsTokens /\ s[Len(s)] \notin WsTokens)
    /\ \A i \in 1..(Len(s) - 1) : ~(s[i] \in WsTokens /\ s[i + 1] \in WsTokens)

\* C12: normalize_text is idempotent and its output is canonical: lowercase,
\* only alphanumeric characters and single blanks, no white space at the
\* start, at the end or twice in a row.
C12_NormalizeCanonical ==
    (fn_call.fn = "normalize_text" /\ fn_result # <<>>) =>
        /\ normalize_text(fn_result[1]) = fn_result[1]
        /\ IsCanonical(fn_result[1])

\* normalize_text is idempotent, and its output is lowercase and has white
\* space only as single blanks between words.
C12_NormalizeIdempotent ==
    (fn_call.fn = "normalize_text" /\ fn_result # <<>>) =>
        LET out == fn_result[1]
        IN /\ normalize_text(out) = out
           /\ \A i \in 1..Len(out) : out[i] \notin UpperLetters
           /\ \A i \in 1..Len(out) : out[i] \in WordChars \/ out[i] = " "
           /\ out # <<>> => (out[1] # " " /\ out[Len(out)] # " ")
           /\ \A i \in 1..(Len(out) - 1) : ~(out[i] = " " /\ out[i + 1] = " ")

\* The keyword occurs in the text, letter case aside, as a whole word or
\* phrase: with no word character right before it and none right after it.
OccursWhole(kw, text) ==
    LET k == Lower(kw)
        t == Lower(text)
    IN k # <<>> /\
       \E i \in 1..Len(t) :
          /\ i + Len(k) - 1 <= Len(t)
          /\ SubSeq(t, i, i + Len(k) - 1) = k
          /\ i > 1 => t[i - 1] \notin WordChars
          /\ i + Len(k) - 1 < Len(t) => t[i + Len(k)] \notin WordChars

\* The keywords of the categories of a bank that a set of categories leaves
\* enabled.
EnabledKeywords(bank, disabled) ==
    UNION {Range(bank[i].keywords) : i \in {j \in 1..Len(bank) : bank[j].category \notin disabled}}

\* C13: for a page of at least 50 characters and every keyword of an enabled
\* category, the keyword is in matched_keywords (and the score counts a hit) if
\* and only if it occurs in the text of the page as a whole word or phrase; a
\* keyword that only occurs inside a larger word is not matched.
C13_WholePhraseMatch ==
    (fn_call.fn = "score_page" /\ fn_result # <<>> /\ TrimmedLen(fn_call.text) >= 50) =>
        /\ \A kw \in EnabledKeywords(fn_call.keyword_bank, fn_call.disabled_categories) :
              (kw \in Range(fn_result[1].matched_keywords)) <=> OccursWhole(kw, fn_call.text)
        /\ (fn_result[1].score > 0) <=> (fn_result[1].matched_keywords # <<>>)

\* A matched keyword occurs in the text as a whole word or phrase, and a
\* keyword made of word characters and blanks that so occurs is matched.
C13_MatchedOccursWhole ==
    (fn_call.fn = "score_page" /\ fn_result # <<>> /\ TrimmedLen(fn_call.text) >= 50) =>
        \A kw \in EnabledKeywords(fn_call.keyword_bank, fn_call.disabled_categories) :
           /\ kw \in Range(fn_result[1].matched_keywords) => OccursWhole(kw, fn_call.text)
           /\ (OccursWhole(kw, fn_call.text)
                 /\ \A i \in 1..Len(kw) : kw[i] \in WordChars \/ kw[i] = " ")
              => kw \in Range(fn_result[1].matched_keywords)

\* s ten-thousandths is hits / sqrt(text_length) rounded to four decimals:
\* (s - 1/2)^2 <= hits^2 * 10^8 / text_length <= (s + 1/2)^2, where the
\* quotient is q + r / text_length, and a value halfway between two
\* neighbours goes to the even one.
RoundsTo(s, hits, text_length) ==
    LET h2 == hits * hits * 10000
        q  == (h2 \div text_length) * 10000 + ((h2 % text_length) * 10000) \div text_length
        r  == ((h2 % text_length) * 10000) % text_length
        lo == s * s - s
        hi == s * s + s
    IN /\ s >= 0
       /\ s > 0 => (lo < q \/ (lo = q /\ text_length <= 4 * r))
       /\ hi > q \/ (hi = q /\ text_length >= 4 * r)
       /\ (lo = q /\ text_length = 4 * r) => s % 2 = 0
       /\ (hi = q /\ text_length = 4 * r) => s % 2 = 0

\* The hit count of a call of score_page.
HitsOfCall ==
    MatchLoop(fn_call.keyword_bank, fn_call.disabled_categories,
              normalize_text(fn_call.text), 1).hits

\* What the score of a text page is: 0 for an empty normalized text, the
\* rounded quotient otherwise; and it never goes down when the hit count goes
\* up.
ScoreIsRoundedQuotient ==
    /\ (fn_call.fn = "score_page" /\ fn_result # <<>> /\ fn_result[1].classification = "text") =>
          LET n == Len(normalize_text(fn_call.text))
          IN IF n = 0 THEN fn_result[1].score = 0
             ELSE RoundsTo(fn_result[1].score, HitsOfCall, n)
    /\ (fn_call.fn = "score_value" /\ fn_result # <<>>) =>
          /\ IF fn_call.text_length = 0 THEN fn_result[1] = 0
             ELSE RoundsTo(fn_result[1], fn_call.hits, fn_call.text_length)
          /\ \A h \in 0..fn_call.hits :
                RoundedScore(h, fn_call.text_length) <= fn_result[1]

\* C14 (as the claim states it): the score of a text page is total_hits /
\* sqrt(normalized length) rounded to four decimals, 0.0 for length 0; it never
\* decreases with the hit count at a fixed length, and it strictly decreases
\* with the length at a fixed hit count, for every hit count.
C14_StrictlyDecreasingInLength ==
    /\ ScoreIsRoundedQuotient
    /\ (fn_call.fn = "score_value" /\ fn_result # <<>>) =>
          \A n \in 1..(fn_call.text_length - 1) :
             RoundedScore(fn_call.hits, n) > fn_result[1]

\* C14 (amended): the score of a text page is total_hits / sqrt(normalized
\* length) rounded to four decimals, 0.0 for length 0; it never decreases with
\* the hit count at a fixed length and never increases with the length at a
\* fixed hit count: it is 0.0 at every length for no hit, and strictly
\* decreasing for a positive hit count at lengths below 300 (further on, two
\* neighbouring lengths can round to the same four decimals).
C14_ScoreMonotone ==
    /\ ScoreIsRoundedQuotient
    /\ (fn_call.fn = "score_value" /\ fn_result # <<>>) =>
          \A n \in 1..(fn_call.text_length - 1) :
             /\ RoundedScore(fn_call.hits, n) >= fn_result[1]
             /\ fn_call.hits > 0 => RoundedScore(fn_call.hits, n) > fn_result[1]
             /\ fn_call.hits = 0 => RoundedScore(fn_call.hits, n) = 0 /\ fn_result[1] = 0

\* C14 witness: a page whose normalized text has 50 characters and two hits
\* was scored 0.2828.
C14_Witness ==
    /\ fn_call.fn = "score_page"
    /\ fn_result # <<>>
    /\ fn_call.text = Body(<<"l", "e", "d", " ", "w", "a", "l", "l", " ", "n", "i", "t">>, 50)
    /\ Len(normalize_text(fn_call.text)) = 50
    /\ HitsOfCall = 2
    /\ fn_result[1].classification = "text"
    /\ fn_result[1].score = 2828

-----------------------------------------------------------------------------
\* Properties of the records the orchestrator merges.

\* The fields that say where a record comes from.
ProvenanceFields == {"source_page", "source_type"}

\* The records of the vision calls, call after call.
RECURSIVE Flatten(_)
Flatten(lists) == IF lists = <<>> THEN <<>> ELSE Head(lists) \o Flatten(Tail(lists))

\* rec is the screen the backend wrote, with the provenance fields besides.
CarriesScreen(rec, screen) ==
    /\ DOMAIN rec = DOMAIN screen \cup ProvenanceFields
    /\ \A f \in DOMAIN screen \ ProvenanceFields : rec[f] = screen[f]

\* C15: every merged record, sentinel or not, has source_page and
\* source_type; the records of the text branch have source_type text, those of
\* the vision branch drawing; the source_page of a vision record is the page
\* of the image whose call gave it; and the other fields are as the backend
\* wrote them.
C15_Provenance ==
    pc = "done" =>
        LET n_text == response[1].summary.from_text
            vision_part == SubSeq(MergedScreens, n_text + 1, Len(MergedScreens))
        IN /\ \A k \in 1..Len(MergedScreens) :
                 /\ ProvenanceFields \subseteq DOMAIN MergedScreens[k]
                 /\ MergedScreens[k].source_page # PyNone
                 /\ MergedScreens[k].source_type = (IF k <= n_text THEN "text" ELSE "drawing")
           /\ vision_part = Flatten(vision_task.added)
           /\ \A i \in 1..Len(vision_task.added) :
                 /\ \A j \in 1..Len(vision_task.added[i]) :
                       vision_task.added[i][j].source_page = vision_payloads[i]
                 /\ vision_task.replies[i] = GoodVisionReply =>
                       /\ Len(vision_task.added[i]) = 2
                       /\ CarriesScreen(vision_task.added[i][1], ScreenA)
                       /\ CarriesScreen(vision_task.added[i][2], ScreenB)
           /\ (text_task.st = "done" /\ text_task.replies[1] = GoodTextReply) =>
                 /\ n_text = 2
                 /\ CarriesScreen(MergedScreens[1], ScreenB)
                 /\ MergedScreens[1].source_page = ScreenB.source_page
                 /\ CarriesScreen(MergedScreens[2], ScreenC)
                 /\ MergedScreens[2].source_page = text_payloads[1]

\* C15 witness: a request merged the two screens of the text reply, the
\* sentinel of a failed vision call for page 1 and two screens of a vision call
\* for another page, one of which the backend had labelled with page 2.
C15_Witness ==
    /\ pc = "done"
    /\ text_task.st = "done" /\ text_task.replies[1] = GoodTextReply
    /\ Len(vision_task.replies) = 2
    /\ vision_task.replies[1].kind = "exception"
    /\ vision_task.replies[2] = GoodVisionReply
    /\ vision_payloads[2] # ScreenB.source_page
    /\ Len(MergedScreens) = 5
    /\ MergedScreens[3].screen_name = "API_ERROR"
    /\ MergedScreens[5].source_page = vision_payloads[2]

\* C16 (as the claim states it): score_page classifies a page drawing if and
\* only if its normalized text has fewer than 50 characters, and text
\* otherwise.
C16_DrawingIffNormalizedShort ==
    (fn_call.fn = "score_page" /\ fn_result # <<>>) =>
        /\ fn_result[1].classification \in Classifications
        /\ (fn_result[1].classification = "drawing")
              <=> (Len(normalize_text(fn_call.text)) < 50)

\* C16 (amended): score_page classifies a page drawing if and only if its
\* text is empty or has fewer than 50 characters once trimmed, and text
\* otherwise, whatever the length of the normalized text.
C16_DrawingIffTrimmedShort ==
    (fn_call.fn = "score_page" /\ fn_result # <<>>) =>
        /\ fn_result[1].classification \in Classifications
        /\ (fn_result[1].classification = "drawing")
              <=> (fn_call.text = <<>> \/ TrimmedLen(fn_call.text) < 50)

\* C16 witness: a page of 50 full stops, whose normalized text is empty, was
\* classified text.
C16_Witness ==
    /\ fn_call.fn = "score_page"
    /\ fn_result # <<>>
    /\ fn_call.text = Pad(".", 50)
    /\ normalize_text(fn_call.text) = <<>>
    /\ fn_result[1].classification = "text"
    /\ fn_call.keyword_bank = KEYWORD_BANK

\* The entries of a list of page entries that have a classification.
EntriesOfClass(pages, class) == {i \in 1..Len(pages) : pages[i].classification = class}

\* C17: a triage request that completes over a document of N pages returns
\* exactly N entries, the i-th with page_num i, total_pages = N, text_pages the
\* number of entries classified text, drawing_pages the number classified
\* drawing, and text_pages + drawing_pages = total_pages, whichever pages
\* failed to load; and after each pass of the loop the same holds of the pages
\* gone through so far.
C17_PageCounts ==
    \A r \in Requests :
        /\ tr_pc[r] \in {"pages", "done"} =>
              /\ Len(pages_result[r]) = Len(tr_doc[r])
              /\ Len(pages_result[r]) <= total_pages[r]
              /\ \A i \in 1..Len(pages_result[r]) : pages_result[r][i].page_num = i
              /\ text_pages_count[r] = Cardinality(EntriesOfClass(pages_result[r], "text"))
              /\ drawing_pages_count[r] = Cardinality(EntriesOfClass(pages_result[r], "drawing"))
              /\ text_pages_count[r] + drawing_pages_count[r] = Len(pages_result[r])
        /\ tr_pc[r] = "done" =>
              LET out == triage_response[r][1]
              IN /\ out.total_pages = Len(tr_doc[r])
                 /\ Len(out.pages) = out.total_pages
                 /\ \A i \in 1..Len(out.pages) : out.pages[i].page_num = i
                 /\ out.text_pages = Cardinality(EntriesOfClass(out.pages, "text"))
                 /\ out.drawing_pages = Cardinality(EntriesOfClass(out.pages, "drawing"))
                 /\ out.text_pages + out.drawing_pages = out.total_pages

\* C17 witness: a request returned for a document of three pages, the first
\* failed to load, the second scored as text, the third too short to score:
\* one text page and two drawing pages.
C17_Witness ==
    /\ tr_pc[1] = "done"
    /\ Len(tr_doc[1]) = 3
    /\ ~tr_doc[1][1].ok /\ tr_doc[1][2].ok /\ tr_doc[1][3].ok
    /\ triage_response[1][1].pages[2].classification = "text"
    /\ triage_response[1][1].pages[3].classification = "drawing"
    /\ triage_response[1][1].total_pages = 3
    /\ triage_response[1][1].text_pages = 1
    /\ triage_response[1][1].drawing_pages = 2

=============================================================================
